---------------------------- MODULE Spec2Model ----------------------------
(***************************************************************************)
(* MultiQC_CMGG: the sex-prediction module (sample_gender.py) and the      *)
(* MSH2 hotspot module (targeted_MSH2.py).                                 *)
(*                                                                         *)
(* A file's text is the sequence of its lines (str.splitlines); a line is  *)
(* the non-empty sequence of the fields str.strip().split(sep) yields.     *)
(* A Python value is a record [t, s, num, den]: a str, an int, or a float  *)
(* held as the reduced fraction num/den.  A dict is a function on its key  *)
(* set.  A sample name is the sequence of the parts of the file-derived    *)
(* name, its last part being a possible "_xy"/"_hetx"/"_sry" extension.    *)
(***************************************************************************)
EXTENDS Integers, Sequences, FiniteSets, TLC

VARIABLES pipeline, targeted_MSH2_config, ignored, data, method, pc,
          history, written, rendered, nIgnore, nConsensus

vars == <<pipeline, targeted_MSH2_config, ignored, data, method, pc,
          history, written, rendered, nIgnore, nConsensus>>

-----------------------------------------------------------------------------
(* Bounds of the model *)

\* the number of files one run discovers
MaxFiles == 3

\* read counts written in the hotspot files range over -MaxCount..MaxCount
MaxCount == 2

-----------------------------------------------------------------------------
(* Python values *)

Str(s) == [t |-> "str", s |-> s, num |-> 0, den |-> 1]

IntV(n) == [t |-> "int", s |-> "", num |-> n, den |-> 1]

Abs(n) == IF n < 0 THEN -n ELSE n

Min(a, b) == IF a <= b THEN a ELSE b

Max(a, b) == IF a >= b THEN a ELSE b

RECURSIVE GCD(_, _)
GCD(a, b) == IF b = 0 THEN a ELSE GCD(b, a % b)

\* the float num/den (den > 0), as a reduced fraction
Flt(num, den) ==
    LET g == GCD(Abs(num), den)
    IN  [t |-> "float", s |-> "", num |-> num \div g, den |-> den \div g]

EmptyDict == [k \in {} |-> Str("")]

\* dict.update(other) / d[k] = v
Update(d, other) ==
    [k \in DOMAIN d \cup DOMAIN other |->
        IF k \in DOMAIN other THEN other[k] ELSE d[k]]

\* an outcome of a call: a returned dict and its key order, or the exception
Ok(d, ks) == [status |-> "ok", dict |-> d, keys |-> ks]

Raise(e) == [status |-> e, dict |-> EmptyDict, keys |-> <<>>]

\* seq[1:6]
Slice1to6(line) == SubSeq(line, 2, Min(6, Len(line)))

SeqToSet(s) == {s[i] : i \in 1..Len(s)}

-----------------------------------------------------------------------------
(* sample_gender.py *)

\* str.lower(), on the field texts of the model
Lower(s) ==
    CASE s \in {"male", "Male", "MALE"} -> "male"
      [] s \in {"female", "Female"} -> "female"
      [] OTHER -> s

\* float(value): the float, "nan", or ValueError
ParseFloat(s) ==
    CASE s = "12"   -> [status |-> "ok", nan |-> FALSE, v |-> Flt(12, 1)]
      [] s = "0.25" -> [status |-> "ok", nan |-> FALSE, v |-> Flt(1, 4)]
      [] s = "0.5"  -> [status |-> "ok", nan |-> FALSE, v |-> Flt(1, 2)]
      [] s = "0.50" -> [status |-> "ok", nan |-> FALSE, v |-> Flt(1, 2)]
      [] s = "nan"  -> [status |-> "ok", nan |-> TRUE, v |-> Flt(0, 1)]
      [] OTHER      -> [status |-> "ValueError", nan |-> FALSE, v |-> Flt(0, 1)]

\* the body of the try/except of the last loop of parse_file
Coerce(value) ==
    LET p == ParseFloat(value)
    IN  IF p.status = "ok"
        THEN IF p.nan THEN Str("N/A") ELSE p.v
        ELSE Str(value)

\* values[0] = "M"/"F" for a case-insensitive male/female
NormalizeFirst(values) ==
    IF Lower(values[1]) = "male" THEN [values EXCEPT ![1] = "M"]
    ELSE IF Lower(values[1]) = "female" THEN [values EXCEPT ![1] = "F"]
    ELSE values

param_map == << <<"reads_chry", "gender_xy">>,
                <<"het_fraction", "gender_hetx">>,
                <<"coverage_sry", "gender_sry">> >>

\* the loop over param_map.items(), from its i-th item on
RECURSIVE RenameHeaders(_, _)
RenameHeaders(headers, i) ==
    IF i > Len(param_map) THEN headers
    ELSE IF param_map[i][1] \in SeqToSet(headers)
         THEN RenameHeaders([headers EXCEPT ![1] = param_map[i][2]], i + 1)
         ELSE RenameHeaders(headers, i + 1)

\* for key, value in zip(headers, values): parsed_data[key] = coerced value
RECURSIVE ZipCoerce(_, _, _)
ZipCoerce(headers, values, n) ==
    IF n = 0 THEN EmptyDict
    ELSE Update(ZipCoerce(headers, values, n - 1),
                (headers[n] :> Coerce(values[n])))

sample_gender_parse_file(f) ==
    IF Len(f) < 2 THEN Ok(EmptyDict, <<>>)
    ELSE LET headers == Slice1to6(f[1])
             values  == Slice1to6(f[2])
         IN  IF values = <<>> THEN Raise("IndexError")
             ELSE LET hs == RenameHeaders(headers, 1)
                      vs == NormalizeFirst(values)
                  IN  Ok(ZipCoerce(hs, vs, Min(Len(hs), Len(vs))), <<>>)

method_dict == << "_xy", "_hetx", "_sry" >>

\* if s_name.endswith(extension): s_name = s_name[: -len(extension)]
CleanName(s_name, extension) ==
    IF Len(s_name) > 0 /\ s_name[Len(s_name)] = extension
    THEN SubSeq(s_name, 1, Len(s_name) - 1)
    ELSE s_name

\* BaseMultiqcModule.ignore_samples: a new dict without the ignored names
ignore_samples(d, ign) == [s \in DOMAIN d \ ign |-> d[s]]

list_gender_methods == <<"gender_xy", "gender_hetx", "gender_sry">>

\* data.get(method) == g, counted over list_gender_methods
CountGender(rec, g) ==
    Cardinality({i \in 1..Len(list_gender_methods) :
                    /\ list_gender_methods[i] \in DOMAIN rec
                    /\ rec[list_gender_methods[i]] = Str(g)})

total == 3

\* a tie between "M" and "F" called "M"
ConsensusOf_tieM(rec) ==
    LET count_M == CountGender(rec, "M")
        count_F == CountGender(rec, "F")
    IN  Update(rec, ("certainty" :> Flt(Max(count_M, count_F), total))
                    @@ ("calc_gender" :> Str(IF count_M >= count_F THEN "M" ELSE "F")))

\* the body of the loop of _calculate_gender_consensus, on one record
ConsensusOf(rec) ==
    LET count_M == CountGender(rec, "M")
        count_F == CountGender(rec, "F")
        percentage == IF count_M >= count_F THEN Flt(count_M, total)
                      ELSE IF count_F >= count_M THEN Flt(count_F, total)
                      ELSE Flt(0, 1)
        calc_sex == IF count_M >= count_F
                    THEN (IF count_M > count_F THEN "M" ELSE "Unknown")
                    ELSE IF count_F >= count_M
                         THEN (IF count_F > count_M THEN "F" ELSE "Unknown")
                         ELSE "Unknown"
    IN  Update(rec, ("certainty" :> percentage) @@ ("calc_gender" :> Str(calc_sex)))

calculate_gender_consensus(d) == [s \in DOMAIN d |-> ConsensusOf(d[s])]

-----------------------------------------------------------------------------
(* targeted_MSH2.py *)

DefaultSangerThreshold == 28

\* getattr(config, "targeted_MSH2_config", {"sanger_threshold": 28}); the
\* attribute is <<>> when the configuration does not set it, else <<dict>>
msh2_config_of(attr) ==
    IF attr = <<>> THEN ("sanger_threshold" :> IntV(DefaultSangerThreshold))
    ELSE attr[1]

wt_key == "MSH2_c.942+3_wt"

\* the field texts int() accepts besides the canonical decimals
ExtraInts == ("02" :> 2) @@ ("25" :> 25) @@ ("100" :> 100)

\* int(x) of a str or an int: the int, or ValueError
PyInt(x) ==
    IF x.t = "int" THEN [status |-> "ok", n |-> x.num]
    ELSE IF x.s \in DOMAIN ExtraInts THEN [status |-> "ok", n |-> ExtraInts[x.s]]
    ELSE IF \E n \in -MaxCount..MaxCount : ToString(n) = x.s
         THEN [status |-> "ok",
               n |-> CHOOSE n \in -MaxCount..MaxCount : ToString(n) = x.s]
         ELSE [status |-> "ValueError", n |-> 0]

\* float(x) of an int, a float or a str
PyFloat(x) ==
    IF x.t \in {"int", "float"} THEN [status |-> "ok", v |-> Flt(x.num, x.den)]
    ELSE LET p == ParseFloat(x.s)
         IN  [status |-> p.status, v |-> p.v]

\* a / b (a >= 0, b > 0) rounded to the nearest integer, ties to even
RoundHalfEven(a, b) ==
    LET q == a \div b
        r == a % b
    IN  IF 2 * r < b THEN q
        ELSE IF 2 * r > b THEN q + 1
        ELSE IF q % 2 = 0 THEN q ELSE q + 1

\* round(v / d * 100, 2), d # 0: its sign and its magnitude in hundredths.
\* 0 / d is -0.0 for a negative d.
Freq(v, d) ==
    [neg |-> (v < 0) # (d < 0),
     h   |-> RoundHalfEven(Abs(v) * 10000, Abs(d))]

\* str(freq) of a float with at most two decimals
FloatRepr(fr) ==
    LET whole == fr.h \div 100
        frac  == fr.h % 100
    IN  (IF fr.neg THEN "-" ELSE "") \o ToString(whole) \o "." \o
        (IF frac % 10 = 0 THEN ToString(frac \div 10)
         ELSE IF frac < 10 THEN "0" \o ToString(frac)
         ELSE ToString(frac))

\* f"{freq}% ({counts})"
FormatVariant(fr, counts) == FloatRepr(fr) \o "% (" \o counts \o ")"

\* the frequency of the wild type, not of the variant
VariantValue_wt(counts, wt, c) ==
    Str(FormatVariant(Freq(wt, wt + c), counts.s))

\* freq = round(c / (wt + c) * 100, 2); parsed_data[variant] = f"{freq}% ({counts})"
VariantValue(counts, wt, c) ==
    Str(FormatVariant(Freq(c, wt + c), counts.s))

\* freq >= float(threshold), threshold the float th
FreqAtLeast(fr, th) ==
    (IF fr.neg THEN -fr.h ELSE fr.h) * th.den >= 100 * th.num

\* the keys of the dict the first loop builds, in insertion order
RECURSIVE ZipKeys(_, _)
ZipKeys(headers, n) ==
    IF n = 0 THEN <<>>
    ELSE LET ks == ZipKeys(headers, n - 1)
         IN  IF headers[n] \in SeqToSet(ks) THEN ks ELSE Append(ks, headers[n])

\* for key, value in zip(headers, values): parsed_data[key] = value
RECURSIVE ZipRaw(_, _, _)
ZipRaw(headers, values, n) ==
    IF n = 0 THEN EmptyDict
    ELSE Update(ZipRaw(headers, values, n - 1), (headers[n] :> Str(values[n])))

\* the second loop of parse_file, from the i-th key on
RECURSIVE FreqLoop(_, _, _, _)
FreqLoop(parsed_data, keys, i, config) ==
    IF i > Len(keys) THEN Ok(parsed_data, keys)
    ELSE LET variant == keys[i]
             counts  == parsed_data[variant]
             c       == PyInt(counts)
         IN  IF variant # wt_key
             THEN IF c.status # "ok" THEN Raise("ValueError")
                  ELSE IF wt_key \notin DOMAIN parsed_data
                  THEN Raise("KeyError('MSH2_c.942+3_wt')")
                  ELSE LET w == PyInt(parsed_data[wt_key])
                       IN  IF w.status # "ok" THEN Raise("ValueError")
                           ELSE IF w.n + c.n = 0 THEN Raise("ZeroDivisionError")
                           ELSE IF "sanger_threshold" \notin DOMAIN config
                           THEN Raise("KeyError('sanger_threshold')")
                           ELSE LET th   == PyFloat(config["sanger_threshold"])
                                    freq == Freq(c.n, w.n + c.n)
                                IN  IF th.status # "ok" THEN Raise("ValueError")
                                    ELSE IF FreqAtLeast(freq, th.v)
                                    THEN FreqLoop([parsed_data EXCEPT ![variant] =
                                                      VariantValue(counts, w.n, c.n)],
                                                  keys, i + 1, config)
                                    ELSE FreqLoop([parsed_data EXCEPT ![variant] =
                                                      VariantValue(counts, w.n, c.n)],
                                                  keys, i + 1, config)
             ELSE IF c.status # "ok" THEN Raise("ValueError")
                  ELSE FreqLoop([parsed_data EXCEPT ![variant] = IntV(c.n)],
                                keys, i + 1, config)

targeted_MSH2_parse_file(f, config) ==
    IF Len(f) < 3 THEN Ok(EmptyDict, <<>>)
    ELSE IF Len(f) < 4 THEN Raise("IndexError")
    ELSE LET headers == Slice1to6(f[3])
             values  == Slice1to6(f[4])
             n       == Min(Len(headers), Len(values))
         IN  FreqLoop(ZipRaw(headers, values, n), ZipKeys(headers, n), 1, config)

-----------------------------------------------------------------------------
(* The files a run may discover *)

xy_header == <<"#file", "gender", "reads_chry", "reads_chrx", "ratio_chry_chrx">>

hetx_header == <<"#file", "gender", "snps_usable", "hom_count", "het_count",
                 "het_fraction">>

sry_header == <<"#file", "gender", "coverage_sry">>

\* the texts of the sex-prediction reports, by method_dict index
SexTexts(m) ==
    CASE m = 1 -> { <<xy_header, <<"a.bam", "male", "12", "12", "0.25">> >>,
                    <<xy_header, <<"a.bam", "female", "12">> >>,
                    <<xy_header>> }
      [] m = 2 -> { <<hetx_header, <<"a.bam", "unknown (too few SNPs)", "12", "12",
                                     "12", "nan">> >>,
                    <<hetx_header, <<"a.bam", "Female", "12", "12", "12", "0.5">> >> }
      [] m = 3 -> { <<sry_header, <<"a.bam", "male", "12">> >>,
                    <<sry_header, <<"a.bam">> >> }

SampleNames == { <<"S1">>, <<"S2">> }

\* what find_log_files(method) may yield, for every method of method_dict
SexFiles ==
    UNION { { [m |-> m, s_name |-> Append(n, method_dict[m]), f |-> t] :
                n \in SampleNames, t \in SexTexts(m) } :
            m \in 1..Len(method_dict) }

preamble == <<"#">>

msh2_header == <<"sample", "MSH2_c.942+3_wt", "MSH2_c.942+3A>T", "MSH2_c.942+2T>A",
                 "MSH2_c.942+2T>C", "MSH2_c.942+2T>G">>

MSH2Texts ==
    { <<preamble, preamble, msh2_header, <<"r", "2", "1", "0", "0", "2">> >>,
      <<preamble, preamble, msh2_header, <<"r", "1", "1">> >>,
      <<preamble, preamble>>,
      <<preamble, preamble, msh2_header>> }

\* what find_log_files("targeted_MSH2") may yield
MSH2Files == { [m |-> 1, s_name |-> n, f |-> t] : n \in SampleNames, t \in MSH2Texts }

\* the values of config.targeted_MSH2_config: unset, or a dict
Configs ==
    { <<>>,
      << ("sanger_threshold" :> IntV(0)) >>,
      << ("sanger_threshold" :> Str("0.5")) >>,
      << EmptyDict >> }

\* the sample names the configured ignore rules match
IgnoreLists == SUBSET SampleNames

-----------------------------------------------------------------------------
(* MultiqcModule.__init__ of both modules, step by step *)

EmptyData == [s \in {} |-> EmptyDict]

\* the record replaced, not updated
SexUpsert_replace(d, s_name, parsed) ==
    [s \in DOMAIN d \cup {s_name} |-> IF s = s_name THEN parsed ELSE d[s]]

\* if s_name not in data: data[s_name] = parsed / else: data[s_name].update(parsed)
SexUpsert(d, s_name, parsed) ==
    IF s_name \notin DOMAIN d
    THEN [s \in DOMAIN d \cup {s_name} |-> IF s = s_name THEN parsed ELSE d[s]]
    ELSE [d EXCEPT ![s_name] = Update(@, parsed)]

\* if not parsed: continue
NotParsed(parsed) == DOMAIN parsed = {}

\* the check left out
NothingToReport_never(d) == FALSE

\* if len(self.samplegender_data) == 0: raise UserWarning
NothingToReport(d) == Cardinality(DOMAIN d) = 0

Entry(file, name, out) == [m |-> file.m, s_name |-> name, f |-> file.f, out |-> out]

Init ==
    /\ pipeline \in {"sample_gender", "targeted_MSH2"}
    /\ targeted_MSH2_config \in
          (IF pipeline = "targeted_MSH2" THEN Configs ELSE { <<>> })
    /\ ignored \in IgnoreLists
    /\ data = EmptyData
    /\ method = 1
    /\ pc = "ingest"
    /\ history = <<>>
    /\ written = <<>>
    /\ rendered = <<>>
    /\ nIgnore = 0
    /\ nConsensus = 0

\* one iteration of the loops of sample_gender.py lines 31-47
SexIngest(files, n) ==
    /\ pipeline = "sample_gender"
    /\ pc = "ingest"
    /\ Len(history) < n
    /\ \E file \in files :
          /\ file.m >= method
          /\ method' = file.m
          /\ LET s_name == CleanName(file.s_name, method_dict[file.m])
                 out    == sample_gender_parse_file(file.f)
             IN  /\ history' = Append(history, Entry(file, s_name, out))
                 /\ IF out.status # "ok"
                    THEN pc' = "failed" /\ data' = data
                    ELSE /\ pc' = pc
                         /\ data' = IF NotParsed(out.dict) THEN data
                                    ELSE SexUpsert(data, s_name, out.dict)
    /\ UNCHANGED <<pipeline, targeted_MSH2_config, ignored, written, rendered,
                   nIgnore, nConsensus>>

\* sample_gender.py lines 49-55, once the loops are over
SexFilter ==
    /\ pipeline = "sample_gender"
    /\ pc = "ingest"
    /\ data' = ignore_samples(data, ignored)
    /\ nIgnore' = nIgnore + 1
    /\ pc' = IF NothingToReport(data') THEN "raised" ELSE "filtered"
    /\ UNCHANGED <<pipeline, targeted_MSH2_config, ignored, method, history,
                   written, rendered, nConsensus>>

\* sample_gender.py line 58
SexConsensus ==
    /\ pipeline = "sample_gender"
    /\ pc = "filtered"
    /\ data' = calculate_gender_consensus(data)
    /\ nConsensus' = nConsensus + 1
    /\ pc' = "derived"
    /\ UNCHANGED <<pipeline, targeted_MSH2_config, ignored, method, history,
                   written, rendered, nIgnore>>

\* sample_gender.py line 61
SexWrite ==
    /\ pipeline = "sample_gender"
    /\ pc = "derived"
    /\ written' = <<data>>
    /\ pc' = "written"
    /\ UNCHANGED <<pipeline, targeted_MSH2_config, ignored, data, method, history,
                   rendered, nIgnore, nConsensus>>

\* sample_gender.py line 64 (_create_table)
SexTable ==
    /\ pipeline = "sample_gender"
    /\ pc = "written"
    /\ rendered' = <<data>>
    /\ pc' = "done"
    /\ UNCHANGED <<pipeline, targeted_MSH2_config, ignored, data, method, history,
                   written, nIgnore, nConsensus>>

\* the ignored names filtered before the file's record is merged, not after
MSH2Merge_filterFirst(d, s_name, parsed, ign) ==
    LET d0 == ignore_samples(d, ign)
    IN  [s \in DOMAIN d0 \cup {s_name} |->
            IF s = s_name
            THEN (IF s \in DOMAIN d0 THEN Update(d0[s], parsed) ELSE parsed)
            ELSE d0[s]]

\* targeted_MSH2.py lines 31-37, on the parsed dict of one file
MSH2Merge(d, s_name, parsed, ign) ==
    LET d1 == IF s_name \notin DOMAIN d
              THEN [s \in DOMAIN d \cup {s_name} |->
                       IF s = s_name THEN parsed ELSE d[s]]
              ELSE d
    IN  IF s_name \in DOMAIN d1
        THEN ignore_samples([d1 EXCEPT ![s_name] = Update(@, parsed)], ign)
        ELSE d1

\* one iteration of the loop of targeted_MSH2.py lines 26-37
MSH2Ingest(files, n) ==
    /\ pipeline = "targeted_MSH2"
    /\ pc = "ingest"
    /\ Len(history) < n
    /\ \E file \in files :
          LET out == targeted_MSH2_parse_file(file.f,
                                              msh2_config_of(targeted_MSH2_config))
          IN  /\ history' = Append(history, Entry(file, file.s_name, out))
              /\ IF out.status # "ok"
                 THEN pc' = "failed" /\ data' = data /\ nIgnore' = nIgnore
                 ELSE /\ pc' = pc
                      /\ data' = MSH2Merge(data, file.s_name, out.dict, ignored)
                      /\ nIgnore' = nIgnore + 1
    /\ UNCHANGED <<pipeline, targeted_MSH2_config, ignored, method, written,
                   rendered, nConsensus>>

\* targeted_MSH2.py lines 39-48, once the loop is over
MSH2Write ==
    /\ pipeline = "targeted_MSH2"
    /\ pc = "ingest"
    /\ written' = <<data>>
    /\ pc' = "written"
    /\ UNCHANGED <<pipeline, targeted_MSH2_config, ignored, data, method, history,
                   rendered, nIgnore, nConsensus>>

\* targeted_MSH2.py lines 94-98
MSH2Table ==
    /\ pipeline = "targeted_MSH2"
    /\ pc = "written"
    /\ rendered' = <<data>>
    /\ pc' = "done"
    /\ UNCHANGED <<pipeline, targeted_MSH2_config, ignored, data, method, history,
                   written, nIgnore, nConsensus>>

Next ==
    \/ SexIngest(SexFiles, MaxFiles)
    \/ SexFilter
    \/ SexConsensus
    \/ SexWrite
    \/ SexTable
    \/ MSH2Ingest(MSH2Files, MaxFiles)
    \/ MSH2Write
    \/ MSH2Table

Spec == Init /\ [][Next]_vars

-----------------------------------------------------------------------------
(* The consensus derivation on every combination of the three method fields *)

GenderValues == { Str("M"), Str("F"), Str("unknown (too few SNPs)"), Str("N/A"),
                  Flt(12, 1) }

GenderRecords ==
    UNION { [ks -> GenderValues] : ks \in SUBSET SeqToSet(list_gender_methods) }

InitConsensus ==
    /\ pipeline = "sample_gender"
    /\ targeted_MSH2_config = <<>>
    /\ ignored = {}
    /\ \E rec \in GenderRecords : data = [s \in { <<"S1">> } |-> rec]
    /\ method = Len(method_dict)
    /\ pc = "filtered"
    /\ history = <<>>
    /\ written = <<>>
    /\ rendered = <<>>
    /\ nIgnore = 1
    /\ nConsensus = 0

NextConsensus == SexConsensus \/ SexWrite \/ SexTable

SpecConsensus == InitConsensus /\ [][NextConsensus]_vars

-----------------------------------------------------------------------------
(* The sex-prediction parser on one file of every shape *)

HeaderNames == {"gender", "reads_chry", "het_fraction", "coverage_sry", "other"}

FirstValues == {"male", "Female", "unknown (too few SNPs)", "12", "nan"}

SeqsUpTo2(S) == { <<>> } \cup { <<a>> : a \in S } \cup { <<a, b>> : a, b \in S }

SeqsUpTo3(S) == SeqsUpTo2(S) \cup { <<a, b, c>> : a, b, c \in S }

GenderParseTexts ==
    { <<>>, <<xy_header>> }
    \cup { << <<"#file">> \o hs, <<"a.bam">> \o vs >> :
             hs \in SeqsUpTo3(HeaderNames) \ { <<>> }, vs \in SeqsUpTo2(FirstValues) }
    \cup { << <<"#file", "gender", "other", "other", "other", "other", "reads_chry">>,
              <<"a.bam">> \o vs >> : vs \in SeqsUpTo2(FirstValues) }

GenderParseFiles == { [m |-> 1, s_name |-> <<"S1", "_xy">>, f |-> t] : t \in GenderParseTexts }

InitParse(p) ==
    /\ Init
    /\ pipeline = p
    /\ ignored = {}

NextGenderParse == SexIngest(GenderParseFiles, 1)

SpecGenderParse == InitParse("sample_gender") /\ [][NextGenderParse]_vars

-----------------------------------------------------------------------------
(* The MSH2 parser on one file of every shape *)

CountTokens ==
    { ToString(n) : n \in -MaxCount..MaxCount } \cup DOMAIN ExtraInts \cup {"x"}

CanonTokens == { ToString(n) : n \in -MaxCount..MaxCount }

MSH2Headers ==
    { <<"sample", wt_key, "MSH2_c.942+3A>T">>,
      <<"sample", "MSH2_c.942+3A>T", wt_key>>,
      <<"sample", "MSH2_c.942+3A>T", "MSH2_c.942+2T>A">>,
      <<"sample", wt_key, "MSH2_c.942+3A>T", "MSH2_c.942+2T>A">> }

MSH2Rows ==
    { <<"r">> \o vs : vs \in SeqsUpTo2(CountTokens) }
    \cup { <<"r", a, b, c>> : a, b, c \in CanonTokens }

MSH2ParseTexts ==
    { <<>>, <<preamble>>, <<preamble, preamble>>, <<preamble, preamble, msh2_header>>,
      <<preamble, preamble, msh2_header \o <<"extra">>,
        <<"r", "100", "25", "0", "2", "1", "1">>, preamble>> }
    \cup { <<preamble, preamble, h, r>> : h \in MSH2Headers, r \in MSH2Rows }

MSH2ParseFiles == { [m |-> 1, s_name |-> <<"S1">>, f |-> t] : t \in MSH2ParseTexts }

NextMSH2Parse == MSH2Ingest(MSH2ParseFiles, 1)

SpecMSH2Parse == InitParse("targeted_MSH2") /\ [][NextMSH2Parse]_vars

-----------------------------------------------------------------------------
(* What the claims speak of *)

DerivedKeys == {"certainty", "calc_gender"}

\* the files ingested so far that parsed to a non-empty mapping
Contributing == { i \in 1..Len(history) :
                    /\ history[i].out.status = "ok"
                    /\ DOMAIN history[i].out.dict # {} }

ContributingOf(s) == { i \in Contributing : history[i].s_name = s }

IngestedNames == { history[i].s_name : i \in Contributing }

SuppliedKeys(s) == UNION { DOMAIN history[i].out.dict : i \in ContributingOf(s) }

\* the value of field k in the last ingested file of sample s that holds k
LastSupplied(s, k) ==
    LET I == { i \in ContributingOf(s) : k \in DOMAIN history[i].out.dict }
        j == CHOOSE x \in I : \A y \in I : y <= x
    IN  history[j].out.dict[k]

Exposed == SeqToSet(written) \cup SeqToSet(rendered)

\* the number of the three method fields of rec that equal g
MethodFieldsEqual(rec, g) ==
    Cardinality({ k \in {"gender_xy", "gender_hetx", "gender_sry"} \cap DOMAIN rec :
                     rec[k] = Str(g) })

-----------------------------------------------------------------------------
(* C1 *)

\* C1: the consensus derivation writes certainty = max(count_M, count_F)/3, one of
\* 0, 1/3, 2/3, 1, and calc_gender = "M" iff count_M > count_F, "F" iff
\* count_F > count_M, "Unknown" iff count_M = count_F, for every combination of
\* the three method fields, absent ones included.
C1_Consensus ==
    nConsensus > 0 =>
        \A s \in DOMAIN data :
            LET rec     == data[s]
                count_M == MethodFieldsEqual(rec, "M")
                count_F == MethodFieldsEqual(rec, "F")
            IN  /\ DerivedKeys \subseteq DOMAIN rec
                /\ rec["certainty"] = Flt(Max(count_M, count_F), 3)
                /\ rec["certainty"] \in { Flt(0, 1), Flt(1, 3), Flt(2, 3), Flt(1, 1) }
                /\ rec["calc_gender"] \in { Str("M"), Str("F"), Str("Unknown") }
                /\ (rec["calc_gender"] = Str("M")) <=> (count_M > count_F)
                /\ (rec["calc_gender"] = Str("F")) <=> (count_F > count_M)
                /\ (rec["calc_gender"] = Str("Unknown")) <=> (count_M = count_F)

\* a derived record with one "M", one "F" and the third field absent
C1_Witness ==
    /\ nConsensus > 0
    /\ \E s \in DOMAIN data :
          /\ MethodFieldsEqual(data[s], "M") = 1
          /\ MethodFieldsEqual(data[s], "F") = 1
          /\ "gender_sry" \notin DOMAIN data[s]
          /\ data[s]["calc_gender"] = Str("Unknown")
          /\ data[s]["certainty"] = Flt(1, 3)

-----------------------------------------------------------------------------
(* C2 *)

\* the dict the first loop of targeted_MSH2.parse_file builds from a text of
\* four lines or more
RawCounts(f) ==
    LET headers == Slice1to6(f[3])
        values  == Slice1to6(f[4])
    IN  ZipRaw(headers, values, Min(Len(headers), Len(values)))

\* the case C2 is about: integer counts under every key, the wild-type key
\* among them, and a numeric sanger_threshold
C2_Case(e) ==
    /\ pipeline = "targeted_MSH2"
    /\ Len(e.f) >= 4
    /\ wt_key \in DOMAIN RawCounts(e.f)
    /\ \A k \in DOMAIN RawCounts(e.f) : PyInt(RawCounts(e.f)[k]).status = "ok"
    /\ "sanger_threshold" \in DOMAIN msh2_config_of(targeted_MSH2_config)
    /\ msh2_config_of(targeted_MSH2_config)["sanger_threshold"].t \in {"int", "float"}

\* C2 as amended: the call fails with the arithmetic error exactly when wt + v = 0
\* for some variant key (whatever the signs of the counts); otherwise every
\* variant key holds "<frequency>% (<count as written in the file>)" with
\* frequency = round(v / (wt + v) * 100, 2), on both sides of the threshold, and
\* the wild-type key holds the plain integer wt.
C2_Frequency ==
    \A i \in 1..Len(history) :
        LET e   == history[i]
            raw == RawCounts(e.f)
            wt  == PyInt(raw[wt_key]).n
            Variants == DOMAIN raw \ {wt_key}
        IN  C2_Case(e) =>
              /\ (e.out.status = "ZeroDivisionError") <=>
                     (\E k \in Variants : wt + PyInt(raw[k]).n = 0)
              /\ e.out.status \in {"ok", "ZeroDivisionError"}
              /\ e.out.status = "ok" =>
                    /\ DOMAIN e.out.dict = DOMAIN raw
                    /\ e.out.dict[wt_key] = IntV(wt)
                    /\ \A k \in Variants :
                          LET v == PyInt(raw[k]).n
                          IN  /\ e.out.dict[k] =
                                   Str(FloatRepr(Freq(v, wt + v)) \o "% (" \o raw[k].s \o ")")
                              /\ (wt = 100 /\ raw[k].s = "25") =>
                                    e.out.dict[k] = Str("20.0% (25)")

\* C2 as claimed: the call fails with the arithmetic error if wt + v = 0, and
\* division by zero occurs only if both counts are zero; otherwise the strings
\* and the integer wt are as above (the count read as the file writes it).
C2_AsClaimed ==
    \A i \in 1..Len(history) :
        LET e   == history[i]
            raw == RawCounts(e.f)
            wt  == PyInt(raw[wt_key]).n
            Variants == DOMAIN raw \ {wt_key}
        IN  C2_Case(e) =>
              /\ (\E k \in Variants : wt + PyInt(raw[k]).n = 0) =>
                     e.out.status = "ZeroDivisionError"
              /\ e.out.status = "ZeroDivisionError" =>
                     \E k \in Variants : wt = 0 /\ PyInt(raw[k]).n = 0
              /\ e.out.status \in {"ok", "ZeroDivisionError"}
              /\ e.out.status = "ok" =>
                    /\ e.out.dict[wt_key] = IntV(wt)
                    /\ \A k \in Variants :
                          LET v == PyInt(raw[k]).n
                          IN  e.out.dict[k] =
                                Str(FloatRepr(Freq(v, wt + v)) \o "% (" \o raw[k].s \o ")")

\* a parsed file with wt = 100 and a variant count of 25, below the default
\* threshold, and a second variant
C2_Witness ==
    \E i \in 1..Len(history) :
        /\ C2_Case(history[i])
        /\ history[i].out.status = "ok"
        /\ targeted_MSH2_config = <<>>
        /\ history[i].out.dict[wt_key] = IntV(100)
        /\ \E k \in DOMAIN history[i].out.dict : history[i].out.dict[k] = Str("20.0% (25)")
        /\ Cardinality(DOMAIN history[i].out.dict) > 2

-----------------------------------------------------------------------------
(* C3 *)

\* C3: after any sequence of ingested files with non-empty parsed mappings, the
\* record of every such sample holds every field one of its files supplied, with
\* the value of the last ingested file that held the field (a record leaves the
\* registry only by the exclusion of its sample name).
C3_Merge ==
    \A s \in IngestedNames :
        IF s \in DOMAIN data
        THEN \A k \in SuppliedKeys(s) :
                (nConsensus = 0 \/ k \notin DerivedKeys) =>
                    /\ k \in DOMAIN data[s]
                    /\ data[s][k] = LastSupplied(s, k)
        ELSE s \in ignored /\ nIgnore > 0

\* a sample with two contributing files, the later one without a field of the
\* earlier one and with another value for a field they share
C3_Witness ==
    \E s \in DOMAIN data : \E i, j \in ContributingOf(s) :
        /\ i < j
        /\ DOMAIN history[i].out.dict \ DOMAIN history[j].out.dict # {}
        /\ \E k \in DOMAIN history[i].out.dict \cap DOMAIN history[j].out.dict :
              /\ history[i].out.dict[k] # history[j].out.dict[k]
              /\ data[s][k] = history[j].out.dict[k]

-----------------------------------------------------------------------------
(* C4 *)

\* C4: the mapping handed to write_data_file and to the table holds no ignored
\* sample name, however many files supplied the sample, and holds every sample
\* that was ingested and is not ignored.
C4_Exclusion ==
    \A m \in Exposed :
        /\ DOMAIN m \cap ignored = {}
        /\ IngestedNames \ ignored \subseteq DOMAIN m

\* a written mapping of a run in which an ignored sample came in two files, the
\* second one after the first removal, beside a sample that is kept
C4_Witness ==
    /\ pipeline = "targeted_MSH2"
    /\ written # <<>>
    /\ DOMAIN written[1] # {}
    /\ \E s \in ignored : Cardinality(ContributingOf(s)) >= 2

-----------------------------------------------------------------------------
(* C5 *)

\* the samples that remain after parsing and exclusion
Remaining == IngestedNames \ ignored

\* C5: in the sex-prediction run, once the files are ingested and the ignored
\* names removed, UserWarning is raised exactly when no sample remains, and then
\* no consensus is derived, no data file written and no table rendered.
C5_NothingToReport ==
    (pipeline = "sample_gender" /\ nIgnore > 0) =>
        /\ (pc = "raised") <=> (Remaining = {})
        /\ pc = "raised" => nConsensus = 0 /\ written = <<>> /\ rendered = <<>>
        /\ pc \in {"raised", "filtered", "derived", "written", "done"}

\* UserWarning raised although files were parsed: every sample was ignored
C5_Witness ==
    /\ pipeline = "sample_gender"
    /\ pc = "raised"
    /\ IngestedNames # {}

-----------------------------------------------------------------------------
(* C6 *)

\* a documented hard error of the MSH2 parser on a text of four lines or more:
\* the wild-type key absent, a count no integer, or a zero denominator
DocumentedError(f) ==
    LET raw == RawCounts(f)
    IN  \/ wt_key \notin DOMAIN raw
        \/ \E k \in DOMAIN raw : PyInt(raw[k]).status # "ok"
        \/ \E k \in DOMAIN raw \ {wt_key} :
              PyInt(raw[wt_key]).n + PyInt(raw[k]).n = 0

\* C6: the MSH2 parser returns an empty mapping, without raising, on a text of
\* fewer than 3 lines; on 3 lines or more it pairs columns 2-6 of line 3 with
\* those of line 4 and fails only by a documented hard error, whatever the
\* configuration.
C6_Outcomes ==
    \A i \in 1..Len(history) :
        LET e == history[i]
        IN  pipeline = "targeted_MSH2" =>
              /\ Len(e.f) < 3 => e.out = Ok(EmptyDict, <<>>)
              /\ (Len(e.f) >= 3 /\ e.out.status = "ok") =>
                    /\ Len(e.f) >= 4
                    /\ DOMAIN e.out.dict = DOMAIN RawCounts(e.f)
              /\ (Len(e.f) >= 3 /\ e.out.status # "ok") =>
                    Len(e.f) >= 4 /\ DocumentedError(e.f)

-----------------------------------------------------------------------------
(* C7 *)

\* C7: when the registry is exposed, every sample's record has the same set of
\* keys, the derived ones apart.
C7_StableKeys ==
    \A m \in Exposed : \A s1, s2 \in DOMAIN m :
        DOMAIN m[s1] \ DerivedKeys = DOMAIN m[s2] \ DerivedKeys

-----------------------------------------------------------------------------
(* C8 *)

\* the internal keys whose source column name is among columns 2-6 of the header
RenamedKeys(f) ==
    { param_map[i][2] : i \in { j \in 1..Len(param_map) :
                                  param_map[j][1] \in SeqToSet(Slice1to6(f[1])) } }

\* C8: on a text of 2 lines or more whose header columns 2-6 hold exactly one of
\* reads_chry, het_fraction, coverage_sry, the sex-prediction parser does not
\* raise and stores the first extracted value (male as "M", female as "F") under
\* the matching internal key, wherever the name stands and however many values
\* the data line has.
C8_Rename ==
    \A i \in 1..Len(history) :
        LET e == history[i]
        IN  (/\ pipeline = "sample_gender"
             /\ Len(e.f) >= 2
             /\ Cardinality(RenamedKeys(e.f)) = 1) =>
                /\ e.out.status = "ok"
                /\ \A key \in RenamedKeys(e.f) :
                      /\ key \in DOMAIN e.out.dict
                      /\ e.out.dict[key] =
                            Coerce(NormalizeFirst(Slice1to6(e.f[2]))[1])

-----------------------------------------------------------------------------
(* C9 *)

\* C9: a file whose parser returns an empty mapping leaves the registry as it
\* was, so every sample of the registry has a file that parsed to a non-empty
\* mapping.
C9_EmptySkipped ==
    /\ \A s \in DOMAIN data : s \in IngestedNames
    /\ \A m \in Exposed : \A s \in DOMAIN m : s \in IngestedNames

-----------------------------------------------------------------------------
(* C10 *)

\* C10: the ignored names are removed exactly once per run, only after every
\* file is ingested and before the mapping is written and rendered; in the
\* sex-prediction run the consensus is then derived exactly once, so that every
\* exposed record carries certainty and calc_gender.
C10_Ordering ==
    /\ pc = "ingest" => nIgnore = 0
    /\ pc \in {"written", "done"} => nIgnore = 1
    /\ (pipeline = "sample_gender" /\ pc \in {"written", "done"}) =>
          /\ nConsensus = 1
          /\ \A m \in Exposed : \A s \in DOMAIN m : DerivedKeys \subseteq DOMAIN m[s]

=============================================================================
